---------------------------- MODULE Spec2Model ----------------------------
(***************************************************************************)
(* A model of src/bible.py: the DataLoader worker thread (load_data,       *)
(* validate_data, download_bible_data), the queued signals it sends to the *)
(* interactive thread, and the BibleReaderApp handlers for search, result  *)
(* navigation and clearing.                                                *)
(*                                                                         *)
(* A Python str is a sequence of characters (TLA+ strings of one           *)
(* character; a book name is kept as one token).  A parsed JSON value is a *)
(* record [t, s, items]: t is "str", "dict" or "list", s the characters of *)
(* a str, items the entries [k |-> key, v |-> value] of a dict in          *)
(* insertion order (Python dicts iterate in insertion order) or the        *)
(* elements of a list (k empty).                                           *)
(***************************************************************************)
EXTENDS Integers, Sequences, FiniteSets, TLC

\* ------------------------------------------------------------------ bounds

\* How many search_bible calls may be suspended in QApplication.processEvents()
\* at once (a search started from inside another search's yield).
MaxNest == 1

\* The longest verse text and the longest search term of the highlighting
\* runs.
MaxTextLen == 3

MaxTermLen == 2

\* ----------------------------------------------------------------- strings

Min(a, b) == IF a < b THEN a ELSE b

Max(a, b) == IF a > b THEN a ELSE b

Digits == <<"0", "1", "2", "3", "4", "5", "6", "7", "8", "9">>

IsDigit(c) == \E i \in 1..10 : Digits[i] = c

DigitVal(c) == (CHOOSE i \in 1..10 : Digits[i] = c) - 1

\* str.isspace for the characters of the model.
IsSpace(c) == c = " "

\* Python int(s) accepts surrounding whitespace, an optional sign and
\* underscores; the model's keys use digits only, so a key parses iff it is a
\* non-empty run of digits.
IntOk(s) == Len(s) > 0 /\ \A i \in 1..Len(s) : IsDigit(s[i])

RECURSIVE IntOf(_)
IntOf(s) ==
    IF Len(s) = 0 THEN 0
    ELSE 10 * IntOf(SubSeq(s, 1, Len(s) - 1)) + DigitVal(s[Len(s)])

\* Python str(n) for n >= 0.
RECURSIVE StrOf(_)
StrOf(n) ==
    IF n < 10 THEN <<Digits[n + 1]>>
    ELSE StrOf(n \div 10) \o <<Digits[(n % 10) + 1]>>

\* str.lower, character by character.  Only ASCII letters of the model's
\* alphabet change.
LowerChar(c) ==
    CASE c = "A" -> "a"
      [] c = "B" -> "b"
      [] OTHER -> c

Lower(s) == [i \in 1..Len(s) |-> LowerChar(s[i])]

\* str.strip(): drop leading and trailing whitespace.
RECURSIVE LStrip(_)
LStrip(s) ==
    IF Len(s) > 0 /\ IsSpace(s[1]) THEN LStrip(Tail(s)) ELSE s

RECURSIVE RStrip(_)
RStrip(s) ==
    IF Len(s) > 0 /\ IsSpace(s[Len(s)]) THEN RStrip(SubSeq(s, 1, Len(s) - 1))
    ELSE s

Strip(s) == RStrip(LStrip(s))

\* Python t[a:b] with 0 <= a, on 0-based positions.
Slice(t, a, b) == SubSeq(t, a + 1, Min(b, Len(t)))

\* Python `sub in text`.
Contains(text, sub) ==
    \E i \in 0..(Len(text) - Len(sub)) : Slice(text, i, i + Len(sub)) = sub

\* Python text.find(sub, start): the lowest 0-based position >= start at which
\* sub occurs, -1 when there is none.
Find(text, sub, start) ==
    LET hits == {i \in start..(Len(text) - Len(sub)) :
                    Slice(text, i, i + Len(sub)) = sub}
    IN  IF hits = {} THEN -1 ELSE CHOOSE i \in hits : \A j \in hits : i <= j

\* sorted(list of int).
Sorted(s) == SortSeq(s, LAMBDA a, b : a < b)

\* ------------------------------------------------------------- JSON values

JStr(chars) == [t |-> "str", s |-> chars, items |-> <<>>]

JDict(entries) == [t |-> "dict", s |-> <<>>, items |-> entries]

JList(elems) ==
    [t |-> "list", s |-> <<>>,
     items |-> [i \in 1..Len(elems) |-> [k |-> <<>>, v |-> elems[i]]]]

\* One entry of a dict.
KV(key, val) == [k |-> key, v |-> val]

\* The empty dict {} that the loader returns on failure.
EmptyDict == JDict(<<>>)

IsDict(j) == j.t = "dict"

\* Python truthiness of a JSON value (an empty container or str is falsy).
Truthy(j) == IF j.t = "str" THEN Len(j.s) > 0 ELSE Len(j.items) > 0

\* list(d.keys()), in insertion order.
Keys(d) == [i \in 1..Len(d.items) |-> d.items[i].k]

\* key in d
HasKey(d, key) == \E i \in 1..Len(d.items) : d.items[i].k = key

\* d[key] for a key that is present.
Get(d, key) == d.items[CHOOSE i \in 1..Len(d.items) : d.items[i].k = key].v

\* [int(c) for c in d.keys()] succeeds (no ValueError).
KeysIntOk(d) == \A i \in 1..Len(d.items) : IntOk(d.items[i].k)

\* Faulty variant: the keys converted but not sorted (the mapping's own order).
IntKeysUnsorted(d) == [i \in 1..Len(d.items) |-> IntOf(d.items[i].k)]

\* sorted([int(c) for c in d.keys()])
SortedIntKeys(d) == Sorted([i \in 1..Len(d.items) |-> IntOf(d.items[i].k)])

\* ------------------------------------------------------ canonical book order

CanonNames ==
    <<"Genesis", "Exodus", "Leviticus", "Numbers", "Deuteronomy",
      "Joshua", "Judges", "Ruth", "1 Samuel", "2 Samuel",
      "1 Kings", "2 Kings", "1 Chronicles", "2 Chronicles", "Ezra",
      "Nehemiah", "Esther", "Job", "Psalms", "Proverbs",
      "Ecclesiastes", "Song of Solomon", "Isaiah", "Jeremiah", "Lamentations",
      "Ezekiel", "Daniel", "Hosea", "Joel", "Amos",
      "Obadiah", "Jonah", "Micah", "Nahum", "Habakkuk",
      "Zephaniah", "Haggai", "Zechariah", "Malachi",
      "Matthew", "Mark", "Luke", "John", "Acts",
      "Romans", "1 Corinthians", "2 Corinthians", "Galatians", "Ephesians",
      "Philippians", "Colossians", "1 Thessalonians", "2 Thessalonians",
      "1 Timothy", "2 Timothy", "Titus", "Philemon", "Hebrews",
      "James", "1 Peter", "2 Peter", "1 John", "2 John",
      "3 John", "Jude", "Revelation">>

\* self.canonical_books: each name a str of one token.
canonical_books == [i \in 1..Len(CanonNames) |-> <<CanonNames[i]>>]

\* [book for book in names if book in data], from the i-th name on.
RECURSIVE BooksPresent(_, _, _)
BooksPresent(names, data, i) ==
    IF i > Len(names) THEN <<>>
    ELSE (IF HasKey(data, names[i]) THEN <<names[i]>> ELSE <<>>)
         \o BooksPresent(names, data, i + 1)

\* Faulty variant: the books in the order of the corpus's own keys.
WorkingBooksKeyOrder(data) == Keys(data)

\* [book for book in self.canonical_books if book in self.bible_data]
WorkingBooks(data) == BooksPresent(canonical_books, data, 1)

\* ------------------------------------------------------------------ search

\* f"{book_name} {chapter_num}:{verse_num}"
Reference(book_name, chapter_num, verse_num) ==
    book_name \o <<" ">> \o chapter_num \o <<":">> \o verse_num

\* Faulty variant: the entry keeps the lowercased text that was matched.
SearchEntryLowered(book_name, chapter_num, verse_num, verse_text) ==
    [reference |-> Reference(book_name, chapter_num, verse_num),
     book |-> book_name, chapter |-> chapter_num, verse |-> verse_num,
     text |-> Lower(verse_text)]

\* The dict appended at lines 758-764.
SearchEntry(book_name, chapter_num, verse_num, verse_text) ==
    [reference |-> Reference(book_name, chapter_num, verse_num),
     book |-> book_name, chapter |-> chapter_num, verse |-> verse_num,
     text |-> verse_text]

\* The outcome of a loop that appends to a list and may raise: the list as it
\* stands when the loop ends or raises, and the exception ("none" if none).
Out(list, e) == [res |-> list, exc |-> e]

\* The verse loop of search_bible, from the i-th sorted verse number on.
RECURSIVE SearchVerses(_, _, _, _, _, _, _)
SearchVerses(chapter_data, book_name, chapter_num, nums, i, term, acc) ==
    IF i > Len(nums) THEN Out(acc, "none")
    ELSE LET verse_num == StrOf(nums[i])
         IN  IF ~HasKey(chapter_data, verse_num) THEN Out(acc, "KeyError")
             ELSE LET verse_text == Get(chapter_data, verse_num)
                  IN  IF verse_text.t # "str" THEN Out(acc, "AttributeError")
                      ELSE SearchVerses(chapter_data, book_name, chapter_num,
                               nums, i + 1, term,
                               IF Contains(Lower(verse_text.s), term)
                               THEN Append(acc, SearchEntry(book_name,
                                        chapter_num, verse_num, verse_text.s))
                               ELSE acc)

\* The chapter loop of search_bible, from the i-th sorted chapter number on.
RECURSIVE SearchChapters(_, _, _, _, _, _)
SearchChapters(book_data, book_name, nums, i, term, acc) ==
    IF i > Len(nums) THEN Out(acc, "none")
    ELSE LET chapter_num == StrOf(nums[i])
         IN  IF ~HasKey(book_data, chapter_num) THEN Out(acc, "KeyError")
             ELSE LET chapter_data == Get(book_data, chapter_num)
                  IN  IF ~IsDict(chapter_data) THEN Out(acc, "AttributeError")
                      ELSE IF ~KeysIntOk(chapter_data) THEN Out(acc, "ValueError")
                      ELSE LET r == SearchVerses(chapter_data, book_name,
                                        chapter_num, SortedIntKeys(chapter_data),
                                        1, term, acc)
                           IN  IF r.exc # "none" THEN r
                               ELSE SearchChapters(book_data, book_name, nums,
                                        i + 1, term, r.res)

\* The book loop of search_bible, from the i-th book of book_names on.
RECURSIVE SearchBooks(_, _, _, _, _)
SearchBooks(data, names, i, term, acc) ==
    IF i > Len(names) THEN Out(acc, "none")
    ELSE LET book_name == names[i]
             book_data == Get(data, book_name)
         IN  IF ~IsDict(book_data) THEN Out(acc, "AttributeError")
             ELSE IF ~KeysIntOk(book_data) THEN Out(acc, "ValueError")
             ELSE LET r == SearchChapters(book_data, book_name,
                               SortedIntKeys(book_data), 1, term, acc)
                  IN  IF r.exc # "none" THEN r
                      ELSE SearchBooks(data, names, i + 1, term, r.res)

\* Lines 741-764: self.search_results = [] and the three nested loops.
SearchLoop(data, names, normalized_term) ==
    SearchBooks(data, names, 1, normalized_term, <<>>)

\* -------------------------------------------------------------- highlighting

Seg(chars, m) == [span |-> chars, isMatch |-> m]

\* Faulty variant: the lowercased term is emitted in place of the matched text.
RECURSIVE HighlightFromLowered(_, _, _, _)
HighlightFromLowered(text, search_term, last_pos, pos) ==
    IF pos = -1 THEN <<Seg(Slice(text, last_pos, Len(text)), FALSE)>>
    ELSE <<Seg(Slice(text, last_pos, pos), FALSE), Seg(search_term, TRUE)>>
         \o HighlightFromLowered(text, search_term, pos + Len(search_term),
                Find(Lower(text), search_term, pos + Len(search_term)))

\* The highlighting loop of display_search_results and
\* display_chapter_with_highlight for a non-empty search_term: from position
\* pos of a match and last_pos, the segments still to be emitted.
RECURSIVE HighlightFrom(_, _, _, _)
HighlightFrom(text, search_term, last_pos, pos) ==
    IF pos = -1 THEN <<Seg(Slice(text, last_pos, Len(text)), FALSE)>>
    ELSE <<Seg(Slice(text, last_pos, pos), FALSE),
           Seg(Slice(text, pos, pos + Len(search_term)), TRUE)>>
         \o HighlightFrom(text, search_term, pos + Len(search_term),
                Find(Lower(text), search_term, pos + Len(search_term)))

Highlight(text, search_term) ==
    HighlightFrom(text, search_term, 0, Find(Lower(text), search_term, 0))

\* With an empty search_term, find returns last_pos itself and last_pos never
\* advances (pos + len("") = pos): the while loop does not end.
HighlightLoops(text, search_term) == Len(search_term) = 0

\* ------------------------------------------------------------------ widgets

\* What a label, the text area or the status bar shows: the template of the
\* text and the values formatted into it.
D(kind, args) == [kind |-> kind, args |-> args]

\* A QComboBox: its items and the 0-based current index (-1: none).
Combo(items, idx) == [items |-> items, idx |-> idx]

CurrentText(c) == IF c.idx >= 0 THEN c.items[c.idx + 1] ELSE <<>>

\* QComboBox.clear()
ComboClear(c) == Combo(<<>>, -1)

\* QComboBox.addItems: the first item inserted into an empty box becomes current.
ComboAddItems(c, xs) ==
    Combo(c.items \o xs, IF c.idx = -1 /\ Len(xs) > 0 THEN 0 ELSE c.idx)

\* QComboBox.setCurrentText on a non-editable box: select the first item with
\* that text, if there is one.
ComboSetCurrentText(c, text) ==
    LET hits == {i \in 1..Len(c.items) : c.items[i] = text}
    IN  IF hits = {} THEN c
        ELSE Combo(c.items, (CHOOSE i \in hits : \A j \in hits : i <= j) - 1)

\* f"{index + 1}/{total}"
PositionLabel(index, total) == StrOf(index + 1) \o <<"/">> \o StrOf(total)

\* ---------------------------------------------------------------- handlers
\* A handler is a function of the application state a (a record of the
\* variables, plus exc: the exception now propagating, "none" if none).  Once
\* an exception propagates or the thread is stuck in a loop, the rest of the
\* handler does nothing.

Live(a) == a.exc = "none" /\ ~a.hung

Raise(a, e) == [a EXCEPT !.exc = e]

\* A slot returns to Qt: an exception that escapes it is reported and dropped,
\* and the caller (the event loop, or the code whose call emitted the signal)
\* goes on.
SlotReturn(a) ==
    IF a.exc = "none" THEN a
    ELSE [a EXCEPT !.exc = "none",
                   !.raised = IF @ = "none" THEN a.exc ELSE @]

\* str(value) as the f-strings of the renderers format a verse.
TextOf(j) == IF j.t = "str" THEN j.s ELSE <<"<object>">>

\* The verses of read_chapter's page, from the i-th sorted verse number on; a
\* missing key ends it with KeyError.
RECURSIVE PlainVerses(_, _, _, _)
PlainVerses(chapter_data, nums, i, acc) ==
    IF i > Len(nums) THEN Out(acc, "none")
    ELSE LET verse_num == StrOf(nums[i])
         IN  IF ~HasKey(chapter_data, verse_num) THEN Out(acc, "KeyError")
             ELSE PlainVerses(chapter_data, nums, i + 1,
                      Append(acc, [num |-> verse_num,
                                   body |-> <<Seg(TextOf(Get(chapter_data, verse_num)), FALSE)>>,
                                   emph |-> FALSE]))

\* Faulty variant: read_chapter without its except KeyError branch.
ReadChapterKeyError(a, book, chapter) == Raise(a, "KeyError")

\* The except KeyError branch of read_chapter.
ReadChapterNotFound(a, book, chapter) ==
    [a EXCEPT !.content_title = D("Error", <<>>),
              !.text_display = D("Chapter {book} {chapter} not found.", <<book, chapter>>),
              !.status_bar = D("Chapter not available", <<>>)]

read_chapter(a) ==
    IF ~Live(a) THEN a
    ELSE
    LET book == CurrentText(a.book_combo)
        chapter == CurrentText(a.chapter_combo)
    IN  IF Len(book) = 0 \/ Len(chapter) = 0 \/ ~Truthy(a.bible_data) THEN a
        ELSE IF ~HasKey(a.bible_data, book) THEN ReadChapterNotFound(a, book, chapter)
        ELSE LET book_data == Get(a.bible_data, book)
             IN  IF ~IsDict(book_data) THEN Raise(a, "TypeError")
                 ELSE IF ~HasKey(book_data, chapter) THEN ReadChapterNotFound(a, book, chapter)
                 ELSE LET chapter_data == Get(book_data, chapter)
                      IN  IF ~IsDict(chapter_data) THEN Raise(a, "AttributeError")
                          ELSE IF ~KeysIntOk(chapter_data) THEN Raise(a, "ValueError")
                          ELSE LET r == PlainVerses(chapter_data,
                                            SortedIntKeys(chapter_data), 1, <<>>)
                               IN  IF r.exc = "KeyError"
                                   THEN ReadChapterNotFound(a, book, chapter)
                                   ELSE [a EXCEPT
                                         !.text_display = D("chapter", <<book, chapter, r.res>>),
                                         !.content_title = D("{book} - Chapter {chapter}", <<book, chapter>>),
                                         !.status_bar = D("{book} {chapter} (KJV) - {n} verses",
                                                          <<book, chapter, Len(chapter_data.items)>>),
                                         !.search_nav_visible = FALSE]

on_chapter_changed(a) ==
    IF ~Live(a) THEN a
    ELSE SlotReturn(IF Truthy(a.bible_data) /\ Len(CurrentText(a.book_combo)) > 0
                    THEN read_chapter(a) ELSE a)

\* self.chapter_combo := c; currentTextChanged reaches on_chapter_changed when
\* the current text changed and the box's signals are not blocked.
SetChapterCombo(a, c) ==
    IF ~Live(a) THEN a
    ELSE IF ~a.chapter_blocked /\ CurrentText(c) # CurrentText(a.chapter_combo)
    THEN on_chapter_changed([a EXCEPT !.chapter_combo = c])
    ELSE [a EXCEPT !.chapter_combo = c]

\* chapter_combo.setCurrentText(text)
SelectChapterText(a, text) ==
    IF ~Live(a) THEN a
    ELSE SetChapterCombo(a, ComboSetCurrentText(a.chapter_combo, text))

\* update_chapters, lines 623-624.
UpdateChaptersSelect(a, chapter_strs) ==
    IF ~Live(a) \/ Len(chapter_strs) = 0 THEN a
    ELSE SelectChapterText(a, chapter_strs[1])

\* [str(c) for c in sorted([int(c) for c in book_data.keys()])]
ChapterStrs(book_data) ==
    [i \in 1..Len(book_data.items) |-> StrOf(SortedIntKeys(book_data)[i])]

\* update_chapters, lines 618-621, for the book read at line 615.
UpdateChaptersFill(a, book) ==
    IF ~Live(a) \/ ~(Len(book) > 0 /\ HasKey(a.bible_data, book)) THEN a
    ELSE IF ~IsDict(Get(a.bible_data, book)) THEN Raise(a, "AttributeError")
    ELSE IF ~KeysIntOk(Get(a.bible_data, book)) THEN Raise(a, "ValueError")
    ELSE UpdateChaptersSelect(
             SetChapterCombo(a, ComboAddItems(a.chapter_combo,
                                    ChapterStrs(Get(a.bible_data, book)))),
             ChapterStrs(Get(a.bible_data, book)))

update_chapters(a) ==
    IF ~Live(a) THEN a
    ELSE UpdateChaptersFill(SetChapterCombo(a, ComboClear(a.chapter_combo)),
                            CurrentText(a.book_combo))

\* on_book_changed, lines 610-611.
OnBookChangedRead(a) ==
    SlotReturn(IF Truthy(a.bible_data) THEN read_chapter(a) ELSE a)

on_book_changed(a) ==
    IF ~Live(a) THEN a ELSE OnBookChangedRead(update_chapters(a))

\* self.book_combo := c, with its currentTextChanged signal.
SetBookCombo(a, c) ==
    IF ~Live(a) THEN a
    ELSE IF ~a.book_blocked /\ CurrentText(c) # CurrentText(a.book_combo)
    THEN on_book_changed([a EXCEPT !.book_combo = c])
    ELSE [a EXCEPT !.book_combo = c]

\* book_combo.setCurrentText(text)
SelectBookText(a, text) ==
    IF ~Live(a) THEN a
    ELSE SetBookCombo(a, ComboSetCurrentText(a.book_combo, text))

\* The page shown by display_welcome; the quote drawn by random.choice is part
\* of the page's text only and is not kept.
display_welcome(a) ==
    IF ~Live(a) THEN a
    ELSE [a EXCEPT !.content_title = D("Welcome to KJV Bible Reader", <<>>),
                   !.text_display = D("welcome", <<>>)]

\* list.index(x): the 0-based position of the first x.
ItemIndex(items, x) ==
    (CHOOSE i \in 1..Len(items) :
         items[i] = x /\ \A j \in 1..(i - 1) : items[j] # x) - 1

\* previous_chapter, lines 697-699: the last chapter of the book just selected
\* (itemText(-1) is "", which setCurrentText does not find).
PreviousChapterLast(a) ==
    IF ~Live(a) THEN a
    ELSE SelectChapterText(a, IF Len(a.chapter_combo.items) = 0 THEN <<>>
                              ELSE a.chapter_combo.items[Len(a.chapter_combo.items)])

\* previous_chapter, lines 691-699: at the first chapter, go to the previous book.
PreviousChapterBook(a, book) ==
    IF \A i \in 1..Len(a.book_names) : a.book_names[i] # book
    THEN Raise(a, "ValueError")
    ELSE IF ItemIndex(a.book_names, book) > 0
    THEN PreviousChapterLast(
             update_chapters(SelectBookText(a, a.book_names[ItemIndex(a.book_names, book)])))
    ELSE a

previous_chapter(a) ==
    LET book == CurrentText(a.book_combo)
        chapter == CurrentText(a.chapter_combo)
        chapters == a.chapter_combo.items
    IN  SlotReturn(
            IF Len(book) = 0 \/ Len(chapter) = 0 THEN a
            ELSE IF ItemIndex(chapters, chapter) > 0
            THEN SelectChapterText(a, chapters[ItemIndex(chapters, chapter)])
            ELSE PreviousChapterBook(a, book))

\* next_chapter, lines 719-721: the first chapter of the book just selected.
NextChapterFirst(a) ==
    IF ~Live(a) THEN a
    ELSE SelectChapterText(a, IF Len(a.chapter_combo.items) = 0 THEN <<>>
                              ELSE a.chapter_combo.items[1])

\* Faulty variant: the next book is the next key of the corpus, not the next
\* name of the working book list.
NextChapterBookKeyOrder(a, book) ==
    IF ~HasKey(a.bible_data, book) THEN Raise(a, "ValueError")
    ELSE IF ItemIndex(Keys(a.bible_data), book) < Len(a.bible_data.items) - 1
    THEN NextChapterFirst(
             update_chapters(SelectBookText(a,
                 Keys(a.bible_data)[ItemIndex(Keys(a.bible_data), book) + 2])))
    ELSE a

\* next_chapter, lines 714-721: at the last chapter, go to the next book.
NextChapterBook(a, book) ==
    IF \A i \in 1..Len(a.book_names) : a.book_names[i] # book
    THEN Raise(a, "ValueError")
    ELSE IF ItemIndex(a.book_names, book) < Len(a.book_names) - 1
    THEN NextChapterFirst(
             update_chapters(SelectBookText(a, a.book_names[ItemIndex(a.book_names, book) + 2])))
    ELSE a

next_chapter(a) ==
    LET book == CurrentText(a.book_combo)
        chapter == CurrentText(a.chapter_combo)
        chapters == a.chapter_combo.items
    IN  SlotReturn(
            IF Len(book) = 0 \/ Len(chapter) = 0 THEN a
            ELSE IF ItemIndex(chapters, chapter) < Len(chapters) - 1
            THEN SelectChapterText(a, chapters[ItemIndex(chapters, chapter) + 2])
            ELSE NextChapterBook(a, book))

\* on_data_loaded, line 556.
OnDataLoadedReady(a) ==
    IF ~Live(a) THEN a
    ELSE [a EXCEPT !.status_bar = D("Ready - Select a book and chapter to read", <<>>)]

\* on_data_loaded, lines 552-556.
OnDataLoadedFirst(a) ==
    IF ~Live(a) \/ Len(a.book_names) = 0 THEN a
    ELSE OnDataLoadedReady(
             display_welcome(update_chapters(SelectBookText(a, a.book_names[1]))))

\* on_data_loaded, lines 550-556.
OnDataLoadedBooks(a) ==
    OnDataLoadedFirst(SetBookCombo(a, ComboAddItems(a.book_combo, a.book_names)))

on_data_loaded(a, data) ==
    SlotReturn(
        IF Truthy(data)
        THEN OnDataLoadedBooks([a EXCEPT !.bible_data = data,
                                         !.book_names = WorkingBooks(data)])
        ELSE [a EXCEPT !.bible_data = data,
                       !.content_title = D("Error", <<>>),
                       !.text_display = D("Failed to load Bible data. Please check your internet connection.", <<>>),
                       !.status_bar = D("Failed to load Bible data", <<>>),
                       !.dialog = "critical"])

\* ------------------------------------------------- search results and cursor

update_result_navigation(a) ==
    IF ~Live(a) \/ Len(a.search_results) = 0 THEN a
    ELSE [a EXCEPT
          !.result_label = PositionLabel(a.current_result_index, Len(a.search_results)),
          !.prev_result_enabled = a.current_result_index > 0,
          !.next_result_enabled = a.current_result_index < Len(a.search_results) - 1]

\* The rendered list of display_search_results: each result's number and
\* reference, and its text cut into highlighted and plain segments.
ResultList(results, search_term) ==
    [i \in 1..Len(results) |->
        [n |-> i, reference |-> results[i].reference,
         body |-> Highlight(results[i].text, search_term)]]

display_search_results(a) ==
    IF ~Live(a) \/ Len(a.search_results) = 0 THEN a
    ELSE LET search_term == Lower(Strip(a.search_input))
         IN  IF HighlightLoops(a.search_results[1].text, search_term)
             THEN [a EXCEPT !.hung = TRUE]
             ELSE update_result_navigation(
                  [a EXCEPT
                   !.text_display = D("results",
                       <<a.search_input, Len(a.search_results),
                         ResultList(a.search_results, search_term)>>),
                   !.content_title = D("Search Results: '{text}' ({n} found)",
                       <<a.search_input, Len(a.search_results)>>)])

\* The verses of display_chapter_with_highlight's page, from the i-th sorted
\* verse number on.
RECURSIVE HighlightVerses(_, _, _, _, _, _)
HighlightVerses(chapter_data, nums, i, search_term, highlight_verse, acc) ==
    IF i > Len(nums) THEN Out(acc, "none")
    ELSE LET verse_num == StrOf(nums[i])
         IN  IF ~HasKey(chapter_data, verse_num) THEN Out(acc, "KeyError")
             ELSE LET text == Get(chapter_data, verse_num)
                  IN  IF Len(search_term) > 0 /\ text.t # "str"
                      THEN Out(acc, "AttributeError")
                      ELSE HighlightVerses(chapter_data, nums, i + 1, search_term,
                               highlight_verse,
                               Append(acc,
                                 [num |-> verse_num,
                                  body |-> IF Len(search_term) > 0
                                              /\ Contains(Lower(text.s), search_term)
                                           THEN Highlight(text.s, search_term)
                                           ELSE <<Seg(TextOf(text), FALSE)>>,
                                  emph |-> (verse_num = highlight_verse)]))

\* The except KeyError branch of display_chapter_with_highlight.
HighlightNotFound(a, book, chapter) ==
    [a EXCEPT !.content_title = D("Error", <<>>),
              !.text_display = D("Chapter {book} {chapter} not found.", <<book, chapter>>)]

display_chapter_with_highlight(a, book, chapter, highlight_verse) ==
    IF ~Live(a) THEN a
    ELSE IF ~HasKey(a.bible_data, book) THEN HighlightNotFound(a, book, chapter)
    ELSE LET book_data == Get(a.bible_data, book)
         IN  IF ~IsDict(book_data) THEN Raise(a, "TypeError")
             ELSE IF ~HasKey(book_data, chapter) THEN HighlightNotFound(a, book, chapter)
             ELSE LET chapter_data == Get(book_data, chapter)
                      search_term == Lower(Strip(a.search_input))
                  IN  IF ~IsDict(chapter_data) THEN Raise(a, "AttributeError")
                      ELSE IF ~KeysIntOk(chapter_data) THEN Raise(a, "ValueError")
                      ELSE LET r == HighlightVerses(chapter_data,
                                        SortedIntKeys(chapter_data), 1, search_term,
                                        highlight_verse, <<>>)
                           IN  IF r.exc = "KeyError" THEN HighlightNotFound(a, book, chapter)
                               ELSE IF r.exc # "none" THEN Raise(a, r.exc)
                               ELSE [a EXCEPT
                                     !.text_display = D("chapter", <<book, chapter, r.res>>),
                                     !.content_title = D("{book} - Chapter {chapter}", <<book, chapter>>),
                                     !.status_bar = D("Result {i}/{n}: {book} {chapter}:{verse}",
                                         <<a.current_result_index + 1, Len(a.search_results),
                                           book, chapter, highlight_verse>>)]

\* jump_to_current_result, lines 863-867.
JumpDisplay(a, result) ==
    IF ~Live(a) THEN a
    ELSE display_chapter_with_highlight(
             [a EXCEPT !.book_blocked = FALSE, !.chapter_blocked = FALSE],
             result.book, result.chapter, result.verse)

\* Faulty variant: the selection is made without blocking the boxes' signals,
\* so that on_book_changed and on_chapter_changed load the chapter themselves.
JumpSelectUnblocked(a, result) ==
    IF ~Live(a) THEN a
    ELSE JumpDisplay(
             SelectChapterText(update_chapters(SelectBookText(a, result.book)),
                               result.chapter),
             result)

\* jump_to_current_result, lines 856-867.
JumpSelect(a, result) ==
    IF ~Live(a) THEN a
    ELSE JumpDisplay(
             SelectChapterText(
                 update_chapters(
                     SelectBookText([a EXCEPT !.book_blocked = TRUE,
                                              !.chapter_blocked = TRUE],
                                    result.book)),
                 result.chapter),
             result)

jump_to_current_result(a) ==
    IF ~Live(a) \/ Len(a.search_results) = 0 THEN a
    ELSE IF a.current_result_index >= Len(a.search_results) THEN Raise(a, "IndexError")
    ELSE JumpSelect(update_result_navigation(a),
                    a.search_results[a.current_result_index + 1])

previous_result(a) ==
    SlotReturn(IF a.current_result_index > 0
               THEN jump_to_current_result(
                        [a EXCEPT !.current_result_index = a.current_result_index - 1])
               ELSE a)

\* Faulty variant: next_result that goes round to the first result after the last.
NextResultWrapping(a) ==
    SlotReturn(IF Len(a.search_results) = 0 THEN a
               ELSE jump_to_current_result(
                        [a EXCEPT !.current_result_index =
                                      (a.current_result_index + 1) % Len(a.search_results)]))

next_result(a) ==
    SlotReturn(IF a.current_result_index < Len(a.search_results) - 1
               THEN jump_to_current_result(
                        [a EXCEPT !.current_result_index = a.current_result_index + 1])
               ELSE a)

\* clear_search, line 945.
ClearSearchStatus(a) ==
    IF ~Live(a) THEN a ELSE [a EXCEPT !.status_bar = D("Search cleared", <<>>)]

\* Faulty variant: clear_search that also empties the working book list.
ClearSearchForgetsBooks(a) ==
    SlotReturn(ClearSearchStatus(
        display_welcome([a EXCEPT !.search_input = <<>>,
                                  !.search_results = <<>>,
                                  !.current_result_index = 0,
                                  !.book_names = <<>>,
                                  !.search_nav_visible = FALSE])))

clear_search(a) ==
    SlotReturn(ClearSearchStatus(display_welcome(
        [a EXCEPT !.search_input = <<>>,
                  !.search_results = <<>>,
                  !.current_result_index = 0,
                  !.search_nav_visible = FALSE])))

\* search_bible reads the term and, with a term and a corpus, reaches
\* QApplication.processEvents() (line 738).
SearchYields(a) == Len(Strip(a.search_input)) > 0 /\ Truthy(a.bible_data)

\* Faulty variant: search_bible that tests the text of the box without .strip().
SearchBibleCallUnstripped(a) ==
    LET search_term == a.search_input
    IN  IF Len(search_term) = 0 THEN [a EXCEPT !.dialog = "warning"]
        ELSE IF ~Truthy(a.bible_data) THEN a
        ELSE [a EXCEPT !.status_bar = D("Searching Bible...", <<>>),
                       !.content_title = D("Searching for: '{search_term}'...", <<search_term>>),
                       !.text_display = D("Processing search, please wait...", <<>>)]

\* Faulty variant: search_bible without the test of self.bible_data.
SearchBibleCallWithoutCorpus(a) ==
    LET search_term == Strip(a.search_input)
    IN  IF Len(search_term) = 0 THEN [a EXCEPT !.dialog = "warning"]
        ELSE [a EXCEPT !.status_bar = D("Searching Bible...", <<>>),
                       !.content_title = D("Searching for: '{search_term}'...", <<search_term>>),
                       !.text_display = D("Processing search, please wait...", <<>>)]

\* search_bible up to line 738, or to its early return.
search_bible_call(a) ==
    LET search_term == Strip(a.search_input)
    IN  IF Len(search_term) = 0 THEN [a EXCEPT !.dialog = "warning"]
        ELSE IF ~Truthy(a.bible_data) THEN a
        ELSE [a EXCEPT !.status_bar = D("Searching Bible...", <<>>),
                       !.content_title = D("Searching for: '{search_term}'...", <<search_term>>),
                       !.text_display = D("Processing search, please wait...", <<>>)]

\* search_bible, lines 770-771.
SearchShown(a, search_term) ==
    IF ~Live(a) THEN a
    ELSE [a EXCEPT !.search_nav_visible = TRUE,
                   !.status_bar = D("Found {n} verses containing '{search_term}'",
                                    <<Len(a.search_results), search_term>>)]

\* search_bible, lines 766-776.
SearchReport(a, search_term) ==
    IF Len(a.search_results) > 0
    THEN SearchShown(display_search_results([a EXCEPT !.current_result_index = 0]),
                     search_term)
    ELSE [a EXCEPT !.current_result_index = 0,
                   !.content_title = D("No Results", <<>>),
                   !.text_display = D("No verses found containing '{search_term}'.", <<search_term>>),
                   !.status_bar = D("No results found", <<>>),
                   !.search_nav_visible = FALSE]

\* search_bible, lines 741-776, given the outcome r of the loops.
SearchStore(a, r, search_term) ==
    IF r.exc # "none" THEN Raise([a EXCEPT !.search_results = r.res], r.exc)
    ELSE SearchReport([a EXCEPT !.search_results = r.res], search_term)

\* search_bible from line 740 on, with its local search_term.
search_bible_resume(a, search_term) ==
    SlotReturn(SearchStore(a, SearchLoop(a.bible_data, a.book_names, Lower(search_term)),
                           search_term))

\* ------------------------------------------------------------------- loader

\* Faulty variant: validate_data that only asks for a non-empty mapping.
ValidateTopLevelOnly(data) ==
    IF ~IsDict(data) \/ Len(data.items) = 0 THEN "False" ELSE "True"

\* DataLoader.validate_data: "True", "False", or the exception that escapes it
\* (next() of an empty iterator raises StopIteration).
validate_data(data) ==
    IF ~IsDict(data) \/ Len(data.items) = 0 THEN "False"
    ELSE LET first_book == data.items[1].v
         IN  IF ~IsDict(first_book) THEN "False"
             ELSE IF Len(first_book.items) = 0 THEN "StopIteration"
             ELSE IF IsDict(first_book.items[1].v) THEN "True" ELSE "False"

\* converted[book_name] = chapters: a new key is appended, an old one keeps
\* its place.
DictSet(d, key, val) ==
    IF HasKey(d, key)
    THEN JDict([i \in 1..Len(d.items) |->
                   IF d.items[i].k = key THEN KV(key, val) ELSE d.items[i]])
    ELSE JDict(Append(d.items, KV(key, val)))

\* The conversion loop of download_bible_data from the i-th element of
\* raw_data on: the dict built so far and the exception that ends the loop.
RECURSIVE ConvertFrom(_, _, _)
ConvertFrom(raw_data, i, converted) ==
    IF i > Len(raw_data.items) THEN Out(converted, "none")
    ELSE LET book_obj == IF raw_data.t = "list" THEN raw_data.items[i].v
                         ELSE JStr(raw_data.items[i].k)
         IN  IF ~IsDict(book_obj) THEN Out(converted, "TypeError")
             ELSE IF ~HasKey(book_obj, <<"book">>) THEN Out(converted, "KeyError")
             ELSE IF ~HasKey(book_obj, <<"chapters">>) THEN Out(converted, "KeyError")
             ELSE IF Get(book_obj, <<"book">>).t # "str" THEN Out(converted, "TypeError")
             ELSE ConvertFrom(raw_data, i + 1,
                      DictSet(converted, Get(book_obj, <<"book">>).s,
                              Get(book_obj, <<"chapters">>)))

\* for book_obj in raw_data: ... (iterating a str yields its characters, which
\* cannot be indexed by "book").
Convert(raw_data) ==
    IF raw_data.t = "str"
    THEN Out(EmptyDict, IF Len(raw_data.s) = 0 THEN "none" ELSE "TypeError")
    ELSE ConvertFrom(raw_data, 1, EmptyDict)

\* The snapshot file kjv.json: absent, not readable as UTF-8 text, not
\* parseable as JSON, or holding a JSON value.
File(state, val) == [state |-> state, val |-> val]

StatusMsg(kind) == [type |-> "status", msg |-> D(kind, <<>>), data |-> EmptyDict]

DataMsg(data) == [type |-> "data", msg |-> D("", <<>>), data |-> data]

\* ------------------------------------------------------------------- inputs

Verses1(t1) == JDict(<<KV(<<"1">>, JStr(t1))>>)

\* A corpus of the documented shape whose keys are not stored in canonical or
\* numeric order: Exodus before Genesis, a book outside the canonical order,
\* chapters "2", "10", "1" and verses "2", "1".
CorpusShuffled ==
    JDict(<<
      KV(<<"Exodus">>, JDict(<<KV(<<"1">>, Verses1(<<"a", "B">>))>>)),
      KV(<<"Tobit">>, JDict(<<KV(<<"1">>, Verses1(<<"a", "b">>))>>)),
      KV(<<"Genesis">>, JDict(<<
          KV(<<"2">>, Verses1(<<"b", "b">>)),
          KV(<<"1", "0">>, JDict(<<KV(<<"2">>, JStr(<<"A", "b">>)),
                                   KV(<<"1">>, JStr(<<"b", " ", "a">>))>>)),
          KV(<<"1">>, Verses1(<<"a">>))>>))>>)

\* A snapshot that validate_data accepts (its first book and first chapter are
\* mappings) although a later verse is not text.
CorpusBadVerse ==
    JDict(<<
      KV(<<"Genesis">>, JDict(<<
          KV(<<"1">>, JDict(<<KV(<<"1">>, JStr(<<"a", "b">>)),
                              KV(<<"2">>, JStr(<<"B">>)),
                              KV(<<"3">>, JList(<<>>))>>))>>)),
      KV(<<"John">>, JDict(<<KV(<<"1">>, Verses1(<<"a", "b">>))>>))>>)

\* A snapshot of the documented shape that stores chapter 1 under two decimal
\* keys, "01" and "1".
CorpusPadded ==
    JDict(<<
      KV(<<"Genesis">>, JDict(<<
          KV(<<"0", "1">>, Verses1(<<"a", "b">>)),
          KV(<<"1">>, Verses1(<<"b">>))>>))>>)

\* A snapshot of the documented shape whose second book stores its only
\* chapter under the decimal key "01".
CorpusPaddedBook ==
    JDict(<<
      KV(<<"Genesis">>, JDict(<<KV(<<"1">>, Verses1(<<"b">>))>>)),
      KV(<<"Exodus">>, JDict(<<KV(<<"0", "1">>, Verses1(<<"a", "b">>))>>))>>)

\* Snapshots that validate_data does not accept.
SnapshotEmpty == EmptyDict

SnapshotBookNotMapping == JDict(<<KV(<<"Genesis">>, JStr(<<"a">>))>>)

SnapshotChapterNotMapping ==
    JDict(<<KV(<<"Genesis">>, JDict(<<KV(<<"1">>, JStr(<<"a">>))>>))>>)

SnapshotBookEmpty == JDict(<<KV(<<"Genesis">>, EmptyDict)>>)

Snapshots ==
    {File("absent", EmptyDict), File("unreadable", EmptyDict),
     File("corrupt", EmptyDict)}
    \cup {File("json", v) : v \in {CorpusShuffled, CorpusBadVerse, CorpusPadded, CorpusPaddedBook,
                                   SnapshotEmpty,
                                   SnapshotBookNotMapping,
                                   SnapshotChapterNotMapping, SnapshotBookEmpty}}

\* What the remote endpoint may answer: the documented list of
\* {"book", "chapters"} records, records without a "book" key, or no record.
PayloadDocumented ==
    JList(<<JDict(<<KV(<<"book">>, JStr(<<"Genesis">>)),
                    KV(<<"chapters">>, JList(<<Verses1(<<"a", "b">>)>>))>>)>>)

PayloadNoBookKey ==
    JList(<<JDict(<<KV(<<"name">>, JStr(<<"Genesis">>)),
                    KV(<<"chapters">>, JList(<<>>))>>)>>)

\* The endpoint answers an empty list.
PayloadEmpty == JList(<<>>)

Payloads == {PayloadDocumented, PayloadNoBookKey, PayloadEmpty}

\* What the user may have typed into the search box.
InputTexts ==
    {<<>>, <<" ">>, <<"b">>, <<" ", "A", "B">>, <<"b", "b">>, <<"a", "a">>}

\* -------------------------------------------------------------------- state

VARIABLES
    bible_data, book_names, search_results, current_result_index,
    search_input, book_combo, chapter_combo, book_blocked, chapter_blocked,
    content_title, text_display, status_bar, search_nav_visible,
    result_label, prev_result_enabled, next_result_enabled,
    raised, dialog, hung, pending,
    file, file0, loader_pc, loader_data, queue, emitted, requests, writes

appvars ==
    <<bible_data, book_names, search_results, current_result_index,
      search_input, book_combo, chapter_combo, book_blocked, chapter_blocked,
      content_title, text_display, status_bar, search_nav_visible,
      result_label, prev_result_enabled, next_result_enabled,
      raised, dialog, hung>>

\* file0 is the snapshot file as found at startup and emitted the signals the
\* loader has emitted so far; the program reads neither.
loadervars == <<file, file0, loader_pc, loader_data, emitted, requests, writes>>

vars == <<appvars, pending, loadervars, queue>>

\* The application state a handler starts from: no exception propagating, and
\* the record of what the handler raised or asked cleared.
App ==
    [bible_data |-> bible_data, book_names |-> book_names,
     search_results |-> search_results,
     current_result_index |-> current_result_index,
     search_input |-> search_input, book_combo |-> book_combo,
     chapter_combo |-> chapter_combo, book_blocked |-> book_blocked,
     chapter_blocked |-> chapter_blocked, content_title |-> content_title,
     text_display |-> text_display, status_bar |-> status_bar,
     search_nav_visible |-> search_nav_visible, result_label |-> result_label,
     prev_result_enabled |-> prev_result_enabled,
     next_result_enabled |-> next_result_enabled,
     raised |-> "none", dialog |-> "none", hung |-> hung, exc |-> "none"]

\* The handler's final state becomes the next state.
Becomes(a) ==
    /\ bible_data' = a.bible_data
    /\ book_names' = a.book_names
    /\ search_results' = a.search_results
    /\ current_result_index' = a.current_result_index
    /\ search_input' = a.search_input
    /\ book_combo' = a.book_combo
    /\ chapter_combo' = a.chapter_combo
    /\ book_blocked' = a.book_blocked
    /\ chapter_blocked' = a.chapter_blocked
    /\ content_title' = a.content_title
    /\ text_display' = a.text_display
    /\ status_bar' = a.status_bar
    /\ search_nav_visible' = a.search_nav_visible
    /\ result_label' = a.result_label
    /\ prev_result_enabled' = a.prev_result_enabled
    /\ next_result_enabled' = a.next_result_enabled
    /\ raised' = a.raised
    /\ dialog' = a.dialog
    /\ hung' = a.hung

\* BibleReaderApp.__init__ up to self.loader.start(), with the snapshot file as
\* the environment left it.
Init ==
    /\ bible_data = EmptyDict
    /\ book_names = <<>>
    /\ search_results = <<>>
    /\ current_result_index = 0
    /\ search_input = <<>>
    /\ book_combo = Combo(<<>>, -1)
    /\ chapter_combo = Combo(<<>>, -1)
    /\ book_blocked = FALSE
    /\ chapter_blocked = FALSE
    /\ content_title = D("Welcome", <<>>)
    /\ text_display = D("Loading Bible data, please wait...", <<>>)
    /\ status_bar = D("Loading Bible data...", <<>>)
    /\ search_nav_visible = FALSE
    /\ result_label = <<"0", "/", "0">>
    /\ prev_result_enabled = TRUE
    /\ next_result_enabled = TRUE
    /\ raised = "none"
    /\ dialog = "none"
    /\ hung = FALSE
    /\ pending = <<>>
    /\ file \in Snapshots
    /\ file0 = file
    /\ emitted = <<>>
    /\ loader_pc = "load_data"
    /\ loader_data = EmptyDict
    /\ queue = <<>>
    /\ requests = 0
    /\ writes = 0

\* ------------------------------------------------------ the loader's thread

\* load_data up to its return or its call of download_bible_data: where the
\* thread goes next ("emit": load_data returned; "download"; "died": an
\* exception that load_data does not catch ended the thread), the value
\* returned and the status signals emitted.
LoadOutcome(pc, data, emits) == [pc |-> pc, data |-> data, emits |-> emits]

\* Faulty variant: load_data that handles an unparseable file like an absent one.
LoadDataCorruptAsAbsent(f) ==
    CASE f.state \in {"absent", "corrupt"} -> LoadOutcome("download", EmptyDict, <<>>)
      [] f.state = "unreadable" -> LoadOutcome("died", EmptyDict, <<>>)
      [] f.state = "json" /\ validate_data(f.val) = "True" ->
            LoadOutcome("emit", f.val, <<StatusMsg("Bible data loaded successfully")>>)
      [] f.state = "json" /\ validate_data(f.val) = "False" ->
            LoadOutcome("download", EmptyDict, <<>>)
      [] f.state = "json" /\ validate_data(f.val) = "StopIteration" ->
            LoadOutcome("died", EmptyDict, <<>>)

load_data(f) ==
    CASE f.state = "absent" -> LoadOutcome("download", EmptyDict, <<>>)
      [] f.state = "unreadable" -> LoadOutcome("died", EmptyDict, <<>>)
      [] f.state = "corrupt" ->
            LoadOutcome("emit", EmptyDict, <<StatusMsg("Error: Corrupted JSON file")>>)
      [] f.state = "json" /\ validate_data(f.val) = "True" ->
            LoadOutcome("emit", f.val, <<StatusMsg("Bible data loaded successfully")>>)
      [] f.state = "json" /\ validate_data(f.val) = "False" ->
            LoadOutcome("download", EmptyDict, <<>>)
      [] f.state = "json" /\ validate_data(f.val) = "StopIteration" ->
            LoadOutcome("died", EmptyDict, <<>>)

LoadLocal ==
    /\ loader_pc = "load_data"
    /\ loader_pc' = load_data(file).pc
    /\ loader_data' = load_data(file).data
    /\ queue' = queue \o load_data(file).emits
    /\ emitted' = emitted \o load_data(file).emits
    /\ UNCHANGED <<appvars, pending, file, file0, requests, writes>>

\* f"Download failed: {str(e)}"
FailedMsg(cause) ==
    [type |-> "status", msg |-> D("Download failed: {e}", <<cause>>), data |-> EmptyDict]

\* Faulty variant: signals that overtake the ones still waiting.
EmitOvertaking(signals) ==
    /\ queue' = signals \o queue
    /\ emitted' = emitted \o signals

\* The loader emits these signals: Qt queues them for the interactive thread.
Emit(signals) ==
    /\ queue' = queue \o signals
    /\ emitted' = emitted \o signals

\* What urlopen (lines 69-70) may raise: the request fails or times out, or
\* the answer is not JSON.
RequestFailures == {"URLError", "JSONDecodeError"}

\* Faulty variant: the failure status without the cause.
DownloadFailedNoCause(statuses, cause) ==
    /\ loader_data' = EmptyDict
    /\ Emit(Append(statuses, FailedMsg("")))

\* The except branch of download_bible_data, after these status signals.
DownloadFailed(statuses, cause) ==
    /\ loader_data' = EmptyDict
    /\ Emit(Append(statuses, FailedMsg(cause)))

\* Faulty variant: download_bible_data that opens the snapshot file for writing
\* before it converts, so that a failed conversion leaves it truncated.
DownloadOpensFirst ==
    /\ loader_pc = "download"
    /\ loader_pc' = "emit"
    /\ requests' = requests + 1
    /\ UNCHANGED <<appvars, pending, file0>>
    /\ \E raw_data \in Payloads :
           /\ file' = File(IF Convert(raw_data).exc # "none" THEN "corrupt" ELSE "json",
                           Convert(raw_data).res)
           /\ writes' = writes + 1
           /\ IF Convert(raw_data).exc # "none"
              THEN DownloadFailed(<<StatusMsg("Downloading Bible data..."),
                                    StatusMsg("Converting data format...")>>,
                                  Convert(raw_data).exc)
              ELSE /\ loader_data' = Convert(raw_data).res
                   /\ Emit(<<StatusMsg("Downloading Bible data..."),
                             StatusMsg("Converting data format..."),
                             StatusMsg("Saving data locally..."),
                             StatusMsg("Bible data loaded successfully")>>)

\* download_bible_data: the request fails, the answer cannot be parsed, or it
\* parses to raw_data; the conversion
\* raises or not; the write succeeds, fails before the file is opened or fails
\* after it was truncated.
Download ==
    /\ loader_pc = "download"
    /\ loader_pc' = "emit"
    /\ requests' = requests + 1
    /\ UNCHANGED <<appvars, pending, file0>>
    /\ \/ /\ \E cause \in RequestFailures :
                 DownloadFailed(<<StatusMsg("Downloading Bible data...")>>, cause)
          /\ UNCHANGED <<file, writes>>
       \/ \E raw_data \in Payloads :
            LET c == Convert(raw_data)
                early == <<StatusMsg("Downloading Bible data..."),
                           StatusMsg("Converting data format...")>>
                late == Append(early, StatusMsg("Saving data locally..."))
            IN  IF c.exc # "none"
                THEN /\ DownloadFailed(early, c.exc)
                     /\ UNCHANGED <<file, writes>>
                ELSE \/ /\ file' = File("json", c.res)
                        /\ writes' = writes + 1
                        /\ loader_data' = c.res
                        /\ Emit(Append(late, StatusMsg("Bible data loaded successfully")))
                     \/ /\ DownloadFailed(late, "OSError")
                        /\ UNCHANGED <<file, writes>>
                     \/ /\ DownloadFailed(late, "OSError")
                        /\ file' = File("corrupt", EmptyDict)
                        /\ writes' = writes + 1

\* run(): self.data_loaded.emit(data)
EmitDataLoaded ==
    /\ loader_pc = "emit"
    /\ loader_pc' = "done"
    /\ Emit(<<DataMsg(loader_data)>>)
    /\ UNCHANGED <<appvars, pending, file, file0, loader_data, requests, writes>>

\* ------------------------------------------------- the interactive thread
\* Qt runs one handler at a time, to its end; a search suspended in
\* processEvents() lets every other handler run before it goes on.  The
\* handlers are the program's interface: each may be called in any state.

\* The event loop delivers the loader's next queued signal: status_update to
\* status_bar.showMessage, data_loaded to on_data_loaded.
Deliver ==
    /\ ~hung
    /\ Len(queue) > 0
    /\ queue' = Tail(queue)
    /\ UNCHANGED <<pending, loadervars>>
    /\ IF Head(queue).type = "status"
       THEN /\ status_bar' = Head(queue).msg
            /\ UNCHANGED <<bible_data, book_names, search_results,
                           current_result_index, search_input, book_combo,
                           chapter_combo, book_blocked, chapter_blocked,
                           content_title, text_display, search_nav_visible,
                           result_label, prev_result_enabled, next_result_enabled,
                           raised, dialog, hung>>
       ELSE Becomes(on_data_loaded(App, Head(queue).data))

\* The user edits the search box.
EditInput ==
    /\ ~hung
    /\ \E t \in InputTexts : search_input' = t
    /\ UNCHANGED <<bible_data, book_names, search_results, current_result_index,
                   book_combo, chapter_combo, book_blocked, chapter_blocked,
                   content_title, text_display, status_bar, search_nav_visible,
                   result_label, prev_result_enabled, next_result_enabled,
                   raised, dialog, hung>>
    /\ UNCHANGED <<pending, loadervars, queue>>

\* search_bible is called and returns early, or reaches processEvents().
SearchBible ==
    /\ ~hung
    /\ SearchYields(App) => Len(pending) < MaxNest
    /\ Becomes(search_bible_call(App))
    /\ pending' = IF SearchYields(App)
                  THEN <<Strip(search_input)>> \o pending ELSE pending
    /\ UNCHANGED <<loadervars, queue>>

\* processEvents() returns to the innermost suspended search_bible.
SearchBibleResume ==
    /\ ~hung
    /\ Len(pending) > 0
    /\ Becomes(search_bible_resume(App, Head(pending)))
    /\ pending' = Tail(pending)
    /\ UNCHANGED <<loadervars, queue>>

\* The Read button: clicked -> read_chapter.
ReadChapter ==
    /\ ~hung
    /\ Becomes(SlotReturn(read_chapter(App)))
    /\ UNCHANGED <<pending, loadervars, queue>>

\* The Previous button or the Left key.
PreviousChapter ==
    /\ ~hung
    /\ Becomes(previous_chapter(App))
    /\ UNCHANGED <<pending, loadervars, queue>>

\* The Next button or the Right key.
NextChapter ==
    /\ ~hung
    /\ Becomes(next_chapter(App))
    /\ UNCHANGED <<pending, loadervars, queue>>

\* The user picks an item of the book box.
SelectBook ==
    /\ ~hung
    /\ \E i \in 0..(Len(book_combo.items) - 1) :
           Becomes(SetBookCombo(App, Combo(book_combo.items, i)))
    /\ UNCHANGED <<pending, loadervars, queue>>

\* The user picks an item of the chapter box.
SelectChapter ==
    /\ ~hung
    /\ \E i \in 0..(Len(chapter_combo.items) - 1) :
           Becomes(SetChapterCombo(App, Combo(chapter_combo.items, i)))
    /\ UNCHANGED <<pending, loadervars, queue>>

ClearSearch ==
    /\ ~hung
    /\ Becomes(clear_search(App))
    /\ UNCHANGED <<pending, loadervars, queue>>

NextResult ==
    /\ ~hung
    /\ Becomes(next_result(App))
    /\ UNCHANGED <<pending, loadervars, queue>>

PreviousResult ==
    /\ ~hung
    /\ Becomes(previous_result(App))
    /\ UNCHANGED <<pending, loadervars, queue>>

Next ==
    \/ LoadLocal
    \/ Download
    \/ EmitDataLoaded
    \/ Deliver
    \/ EditInput
    \/ SearchBible
    \/ SearchBibleResume
    \/ ClearSearch
    \/ NextResult
    \/ PreviousResult
    \/ ReadChapter
    \/ PreviousChapter
    \/ NextChapter
    \/ SelectBook
    \/ SelectChapter

Spec == Init /\ [][Next]_vars

\* ================================================================== claims

\* The position of a canonical book name in canonical_books.
BookIndex(b) == CHOOSE i \in 1..Len(canonical_books) : canonical_books[i] = b

\* A key made of decimal digits only.
DecimalKey(k) == IntOk(k)

\* A key that is the decimal string Python prints for its own number.
PrintedKey(k) == IntOk(k) /\ StrOf(IntOf(k)) = k

\* Every chapter key and every verse key of the corpus satisfies the test
\* named by kind.
KeysAre(data, kind) ==
    \A i \in 1..Len(data.items) :
        IsDict(data.items[i].v) =>
            \A j \in 1..Len(data.items[i].v.items) :
                /\ IF kind = "printed" THEN PrintedKey(data.items[i].v.items[j].k)
                                       ELSE DecimalKey(data.items[i].v.items[j].k)
                /\ IsDict(data.items[i].v.items[j].v) =>
                       \A n \in 1..Len(data.items[i].v.items[j].v.items) :
                           IF kind = "printed"
                           THEN PrintedKey(data.items[i].v.items[j].v.items[n].k)
                           ELSE DecimalKey(data.items[i].v.items[j].v.items[n].k)

\* e1 comes strictly before e2 in (canonical book, chapter number, verse number).
EntryBefore(e1, e2) ==
    \/ BookIndex(e1.book) < BookIndex(e2.book)
    \/ /\ e1.book = e2.book
       /\ \/ IntOf(e1.chapter) < IntOf(e2.chapter)
          \/ /\ IntOf(e1.chapter) = IntOf(e2.chapter)
             /\ IntOf(e1.verse) < IntOf(e2.verse)

\* The list is strictly increasing in (canonical book, chapter, verse).
StrictlyOrdered(results) ==
    \A i \in 1..(Len(results) - 1) :
        /\ \E n \in 1..Len(canonical_books) : canonical_books[n] = results[i].book
        /\ EntryBefore(results[i], results[i + 1])

\* C1: on a corpus whose chapter and verse keys are decimal strings, the list
\* search_bible builds is strictly increasing in (index of the book in the
\* canonical order, chapter as integer, verse as integer), whatever the order
\* in which the corpus stores its keys.
C1_SearchResultsOrdered ==
    KeysAre(bible_data, "decimal") => StrictlyOrdered(search_results)

\* C1, restricted: the same ordering on corpora whose keys are the strings
\* str() prints, so that str(int(key)) finds the key again.
C1_OrderedOnPrintedKeys ==
    KeysAre(bible_data, "printed") => StrictlyOrdered(search_results)

\* C1, restricted, witness: a search of the corpus stored as Exodus, Tobit, Genesis with
\* chapters "2", "10", "1" has listed Genesis 2, Genesis 10 (verse 1 before
\* verse 2) and then Exodus.
C1_Witness ==
    /\ bible_data = CorpusShuffled
    /\ Len(search_results) = 4
    /\ search_results[1].reference = <<"Genesis", " ", "2", ":", "1">>
    /\ search_results[2].reference = <<"Genesis", " ", "1", "0", ":", "1">>
    /\ search_results[3].reference = <<"Genesis", " ", "1", "0", ":", "2">>
    /\ search_results[4].reference = <<"Exodus", " ", "1", ":", "1">>

\* The value stored in the corpus at book/chapter/verse is the text chars.
StoredText(data, book, chapter, verse, chars) ==
    /\ HasKey(data, book) /\ IsDict(Get(data, book))
    /\ HasKey(Get(data, book), chapter) /\ IsDict(Get(Get(data, book), chapter))
    /\ HasKey(Get(Get(data, book), chapter), verse)
    /\ Get(Get(Get(data, book), chapter), verse) = JStr(chars)

\* C3: every entry of search_results names a place of the corpus: its
\* reference is "<book> <chapter>:<verse>" of its own fields and its text is
\* the text the corpus stores there, in the original case.
C3_EntriesMatchCorpus ==
    \A i \in 1..Len(search_results) :
        LET e == search_results[i]
        IN  /\ e.reference = e.book \o <<" ">> \o e.chapter \o <<":">> \o e.verse
            /\ StoredText(bible_data, e.book, e.chapter, e.verse, e.text)

\* C3 witness: a result whose stored text has upper-case letters that the
\* lowercased term matched.
C3_Witness ==
    \E i \in 1..Len(search_results) :
        /\ search_results[i].text = <<"A", "b">>
        /\ search_results[i].reference = <<"Genesis", " ", "1", "0", ":", "2">>

\* The entries of a mapping or list, as a set.
ItemsOf(j) == {j.items[i] : i \in 1..Len(j.items)}

\* The verses of one chapter whose text contains t, case-insensitively.
MatchingVerses(book, chapter_kv, t) ==
    {<<book, chapter_kv.k, v.k>> :
        v \in {w \in ItemsOf(chapter_kv.v) :
                  w.v.t = "str" /\ Contains(Lower(w.v.s), Lower(t))}}

MatchingInBook(data, book, t) ==
    IF ~IsDict(Get(data, book)) THEN {}
    ELSE UNION {MatchingVerses(book, c, t) :
                   c \in {d \in ItemsOf(Get(data, book)) : IsDict(d.v)}}

\* Every (book, chapter key, verse key) of a working-list book whose text
\* contains t.
MatchingPlaces(data, names, t) ==
    UNION {MatchingInBook(data, names[b], t) : b \in 1..Len(names)}

PlaceOf(e) == <<e.book, e.chapter, e.verse>>

\* The list has one entry for each matching place and no other entry.
ExactMatches(results, data, names, t) ==
    /\ {PlaceOf(results[i]) : i \in 1..Len(results)} = MatchingPlaces(data, names, t)
    /\ Len(results) = Cardinality(MatchingPlaces(data, names, t))

\* Every book is a mapping of chapters, every chapter a mapping of verses,
\* every verse a text, and every key the string str() prints for its number.
WellFormed(data) ==
    /\ KeysAre(data, "printed")
    /\ \A b \in ItemsOf(data) :
           /\ IsDict(b.v)
           /\ \A c \in ItemsOf(b.v) :
                  IsDict(c.v) /\ \A v \in ItemsOf(c.v) : v.v.t = "str"

\* C2: when search_bible has run with the non-empty trimmed term t,
\* search_results holds exactly one entry for each (book, chapter, verse) of a
\* working-list book whose text contains t case-insensitively and nothing
\* else, whatever the list held before.
C2_SearchFindsExactlyTheMatches ==
    [][SearchBibleResume =>
           ExactMatches(search_results', bible_data, book_names, Head(pending))]_vars

\* C2, restricted: the same on well-formed corpora.
C2_ExactOnWellFormed ==
    [][(SearchBibleResume /\ WellFormed(bible_data)) =>
           ExactMatches(search_results', bible_data, book_names, Head(pending))]_vars

\* C4: whenever search_results is non-empty,
\* 0 <= current_result_index <= len(search_results) - 1.
C4_CursorInRange ==
    Len(search_results) > 0 =>
        current_result_index \in 0..(Len(search_results) - 1)

\* C4, restricted: the same while the loaded corpus is well formed.
C4_InRangeOnWellFormed ==
    (WellFormed(bible_data) /\ Len(search_results) > 0) =>
        current_result_index \in 0..(Len(search_results) - 1)

\* The cursor is at an index of a non-empty list.
Positioned ==
    /\ Len(search_results) > 0
    /\ current_result_index \in 0..(Len(search_results) - 1)

\* The handler that ended in state r left the cursor at target; where it was
\* already there (the end of the list) it changed neither the index nor the
\* position label and raised nothing.
ClampedAt(r, target) ==
    /\ r.current_result_index = target
    /\ target = current_result_index =>
           /\ r.result_label = result_label
           /\ r.raised = "none" /\ r.exc = "none"

\* C5: from a positioned cursor at index i of a list of length len,
\* next_result moves to min(i+1, len-1) and previous_result to max(i-1, 0);
\* next_result at the last index and previous_result at index 0 change neither
\* the index nor the position label, do not wrap and do not raise.
C5_NextPreviousClamp ==
    (Positioned /\ ~hung) =>
        /\ ClampedAt(next_result(App),
                     Min(current_result_index + 1, Len(search_results) - 1))
        /\ ClampedAt(previous_result(App), Max(current_result_index - 1, 0))

\* C5 witness: the cursor has been moved to the last of four results, where
\* the next-result control is off and next_result is a no-op.
C5_Witness ==
    /\ Len(search_results) = 4
    /\ current_result_index = 3
    /\ result_label = <<"4", "/", "4">>
    /\ ~next_result_enabled
    /\ raised = "none"

\* What the window shows of the search and of the text read.
shown ==
    <<content_title, text_display, status_bar, search_nav_visible, result_label,
      prev_result_enabled, next_result_enabled, book_combo, chapter_combo>>

\* C6: a search that finds at least one result leaves the cursor at index 0 of
\* the new list; a search that finds no result, and clear_search, leave the
\* list empty; with an empty list next_result and previous_result change
\* nothing and render nothing.
C6_CursorTransitions ==
    [][/\ (SearchBibleResume /\ Len(search_results') > 0) => current_result_index' = 0
       /\ (SearchBibleResume
             /\ MatchingPlaces(bible_data, book_names, Head(pending)) = {}) =>
              search_results' = <<>>
       /\ ClearSearch => search_results' = <<>>
       /\ ((NextResult \/ PreviousResult) /\ Len(search_results) = 0) =>
              UNCHANGED <<search_results, current_result_index, shown>>]_vars

\* C6, restricted: the same transitions while the loaded corpus is well formed.
C6_TransitionsOnWellFormed ==
    [][WellFormed(bible_data) =>
        /\ (SearchBibleResume /\ Len(search_results') > 0) => current_result_index' = 0
        /\ (SearchBibleResume
              /\ MatchingPlaces(bible_data, book_names, Head(pending)) = {}) =>
               search_results' = <<>>
        /\ ClearSearch => search_results' = <<>>
        /\ ((NextResult \/ PreviousResult) /\ Len(search_results) = 0) =>
               UNCHANGED <<search_results, current_result_index, shown>>]_vars

\* The position label and the two controls agree with the cursor.
NavigationAgrees ==
    /\ result_label = PositionLabel(current_result_index, Len(search_results))
    /\ prev_result_enabled = (current_result_index > 0)
    /\ next_result_enabled = (current_result_index < Len(search_results) - 1)

\* C7: in every state with a non-empty result list the position label is
\* "<index+1>/<len>", the previous-result control is disabled iff index = 0
\* and the next-result control is disabled iff index = len - 1.
C7_LabelAndControlsAgree ==
    Len(search_results) > 0 => NavigationAgrees

\* C7, restricted: the same while the loaded corpus is well formed and the
\* interactive thread is not stuck in a loop.
C7_AgreeOnWellFormed ==
    (WellFormed(bible_data) /\ ~hung /\ Len(search_results) > 0) => NavigationAgrees

\* C8: search_bible with an empty or whitespace-only term prompts for a term
\* and returns before any search: search_results, current_result_index and
\* what the window shows stay as they were, and no search is left pending.
C8_BlankTermRejected ==
    [][(SearchBible /\ Len(Strip(search_input)) = 0) =>
           /\ dialog' = "warning"
           /\ pending' = pending
           /\ UNCHANGED <<search_results, current_result_index, shown,
                          search_input, bible_data, book_names>>]_vars

\* C8 witness: the prompt is up after a whitespace-only term was submitted
\* while the cursor stood on the second of several results, which are kept.
C8_Witness ==
    /\ dialog = "warning"
    /\ search_input = <<" ">>
    /\ Len(search_results) > 1
    /\ current_result_index = 1
    /\ search_nav_visible

\* The three parsed snapshots that structural validation must reject.
RejectedSnapshots ==
    {SnapshotEmpty, SnapshotBookNotMapping, SnapshotChapterNotMapping}

\* C9: validate_data rejects {}, {"Genesis": "not a mapping"} and
\* {"Genesis": {"1": "not a mapping"}}; for each the loader goes on to the
\* remote request (exactly one, made before anything is delivered) and no
\* exception ends its thread.
C9_RejectedSnapshotsFallBack ==
    (file0.state = "json" /\ file0.val \in RejectedSnapshots) =>
        /\ validate_data(file0.val) = "False"
        /\ loader_pc # "died"
        /\ \/ loader_pc \in {"load_data", "download"} /\ requests = 0 /\ emitted = <<>>
           \/ loader_pc \in {"emit", "done"} /\ requests = 1

\* C9 witness: each of the three snapshots has been read and the remote
\* request made.
C9_Witness ==
    /\ file0 = File("json", SnapshotChapterNotMapping)
    /\ requests = 1
    /\ loader_pc = "done"

\* C10: when the snapshot file exists and cannot be parsed, the loader emits
\* the corrupted-file status and then an empty corpus, makes no network
\* request and never writes the file.
C10_CorruptFileHandledLocally ==
    file0.state = "corrupt" =>
        /\ requests = 0
        /\ writes = 0
        /\ file = file0
        /\ loader_pc \in {"load_data", "emit", "done"}
        /\ loader_pc = "load_data" => emitted = <<>>
        /\ loader_pc = "emit" => emitted = <<StatusMsg("Error: Corrupted JSON file")>>
        /\ loader_pc = "done" =>
               emitted = <<StatusMsg("Error: Corrupted JSON file"), DataMsg(EmptyDict)>>
        /\ bible_data = EmptyDict

\* C10 witness: the loader has finished on an unparseable file and the empty
\* corpus has been delivered to the window.
C10_Witness ==
    /\ file0.state = "corrupt"
    /\ loader_pc = "done"
    /\ queue = <<>>
    /\ dialog = "critical"
    /\ status_bar = D("Failed to load Bible data", <<>>)

\* The last status notification among these signals (none: the data message
\* of an empty corpus stands for "no status").
LastStatus(signals) ==
    LET statuses == SelectSeq(signals, LAMBDA m : m.type = "status")
    IN  IF Len(statuses) = 0 THEN DataMsg(EmptyDict) ELSE statuses[Len(statuses)]

\* Every cause of failure of the remote path: request, parse of the payload,
\* transform, write.
DownloadFailures == RequestFailures \cup {"KeyError", "TypeError", "OSError"}

\* C11: download_bible_data always returns; when the request, the parse of
\* the payload, the transform or the write fails it returns an empty corpus
\* and its last status is "Download failed: <cause>"; otherwise it has written
\* the converted corpus, returns it and reports success.
C11_DownloadFailureIsReported ==
    [][Download =>
           /\ loader_pc' = "emit"
           /\ \/ /\ LastStatus(emitted') = StatusMsg("Bible data loaded successfully")
                 /\ writes' = writes + 1
                 /\ file' = File("json", loader_data')
              \/ /\ \E cause \in DownloadFailures :
                        LastStatus(emitted') = FailedMsg(cause)
                 /\ loader_data' = EmptyDict]_vars

\* C11 witness: the write failed after it had truncated the file; the failure
\* status with its cause and then the empty corpus have reached the window.
C11_Witness ==
    /\ file0.state = "absent"
    /\ file.state = "corrupt"
    /\ writes = 1
    /\ LastStatus(emitted) = FailedMsg("OSError")
    /\ loader_pc = "done"
    /\ queue = <<>>
    /\ bible_data = EmptyDict
    /\ dialog = "critical"

\* The terminal data_loaded messages among these signals.
DataMessages(signals) == SelectSeq(signals, LAMBDA m : m.type = "data")

\* No exception has ended the loader's thread, data_loaded was emitted at
\* most once, and once the loader is through it was emitted exactly once,
\* carrying the corpus load_data returned.
LoaderDeliversOnce ==
    /\ loader_pc # "died"
    /\ Len(DataMessages(emitted)) <= 1
    /\ loader_pc = "done" => DataMessages(emitted) = <<DataMsg(loader_data)>>
    /\ loader_pc # "done" => DataMessages(emitted) = <<>>

\* C12: whatever the local read gives (absent, unreadable, unparseable, parsed
\* with any shape) and whatever remote acquisition gives, the loader emits
\* data_loaded exactly once, with the final or an empty corpus, and no
\* exception escapes it before.
C12_LoaderDeliversExactlyOnce == LoaderDeliversOnce

\* C12, restricted: the same when the file can be read as text and its first
\* book, if it is a mapping, is not empty.
C12_DeliversOnceOnOtherFiles ==
    (file0.state # "unreadable" /\ file0 # File("json", SnapshotBookEmpty)) =>
        LoaderDeliversOnce

\* A data_loaded message, if there is one, is the last of these signals.
StatusesBeforeData(signals) ==
    \A i \in 1..Len(signals) : signals[i].type = "data" => i = Len(signals)

\* q is what is left of e after some of its first elements were taken.
IsSuffix(q, e) ==
    /\ Len(q) <= Len(e)
    /\ SubSeq(e, Len(e) - Len(q) + 1, Len(e)) = q

\* C13: the loader emits every status notification before data_loaded and
\* none after it, and the interactive thread receives them in that order:
\* what still waits is always the tail of what was emitted.
C13_StatusesPrecedeData ==
    /\ StatusesBeforeData(emitted)
    /\ IsSuffix(queue, emitted)

\* C13 witness: a download has emitted four statuses and then the data, and
\* the window has received all five.
C13_Witness ==
    /\ loader_pc = "done"
    /\ Len(emitted) = 5
    /\ emitted[5].type = "data"
    /\ queue = <<>>
    /\ Truthy(bible_data)

\* The event loop hands the terminal data_loaded message to on_data_loaded.
DeliverData == Deliver /\ Len(queue) > 0 /\ Head(queue).type = "data"

\* C14: bible_data and book_names change only when on_data_loaded handles the
\* terminal event, which assigns the delivered corpus as a whole in place of
\* the initial empty one and happens at most once (no data message is left or
\* can still be emitted); no search, clear, result or chapter navigation,
\* read or selection changes either of them.
C14_CorpusAssignedOnce ==
    [][/\ (bible_data' # bible_data \/ book_names' # book_names) => DeliverData
       /\ DeliverData =>
              /\ bible_data = EmptyDict /\ book_names = <<>>
              /\ bible_data' = Head(queue).data
              /\ DataMessages(queue') = <<>>
              /\ loader_pc = "done"]_vars

\* C14 witness: long after the load the window still holds the corpus of the
\* file: a search has run, the cursor was moved, another book was selected.
C14_Witness ==
    /\ bible_data = CorpusShuffled
    /\ book_names = <<<<"Genesis">>, <<"Exodus">>>>
    /\ Len(search_results) > 0
    /\ current_result_index > 0
    /\ CurrentText(book_combo) = <<"Exodus">>
    /\ search_input = <<>>

IsCanonical(b) == \E n \in 1..Len(canonical_books) : canonical_books[n] = b

\* C15: once a non-empty corpus is loaded, book_names holds canonical books
\* that the corpus has, in strictly increasing canonical position (so without
\* duplicates), and holds every canonical book that the corpus has; a book
\* outside the canonical order is never in it.
C15_WorkingBookList ==
    Truthy(bible_data) =>
        /\ \A i \in 1..Len(book_names) :
               IsCanonical(book_names[i]) /\ HasKey(bible_data, book_names[i])
        /\ \A i \in 1..(Len(book_names) - 1) :
               BookIndex(book_names[i]) < BookIndex(book_names[i + 1])
        /\ \A n \in 1..Len(canonical_books) :
               HasKey(bible_data, canonical_books[n]) =>
                   \E i \in 1..Len(book_names) : book_names[i] = canonical_books[n]

\* C15 witness: the corpus stored as Exodus, Tobit, Genesis is loaded and the
\* list is Genesis, Exodus.
C15_Witness ==
    /\ Keys(bible_data) = <<<<"Exodus">>, <<"Tobit">>, <<"Genesis">>>>
    /\ book_names = <<<<"Genesis">>, <<"Exodus">>>>
    /\ book_combo.items = book_names

\* Decimal strings in strictly increasing numeric order.
Ascending(strs) ==
    \A i \in 1..(Len(strs) - 1) : IntOf(strs[i]) < IntOf(strs[i + 1])

\* The numbers of the verses on a chapter page, in the order rendered.
RenderedVerseNums(page) == [i \in 1..Len(page.args[3]) |-> page.args[3][i].num]

\* Decimal strings in numeric order, equal numbers allowed.
NonDescending(strs) ==
    \A i \in 1..(Len(strs) - 1) : IntOf(strs[i]) <= IntOf(strs[i + 1])

\* C16: the chapter box and every chapter page rendered by read_chapter or
\* display_chapter_with_highlight are in numeric order however the keys are
\* stored; for a valid corpus the box lists the chapters of the selected
\* book, all of them, in strictly ascending order, and the page lists the
\* verses of its chapter, all of them, in strictly ascending order.
C16_ChaptersAndVersesAscending ==
    /\ NonDescending(chapter_combo.items)
    /\ text_display.kind = "chapter" => NonDescending(RenderedVerseNums(text_display))
    /\ WellFormed(bible_data) =>
        /\ Ascending(chapter_combo.items)
        /\ Len(chapter_combo.items) > 0 =>
               {chapter_combo.items[i] : i \in 1..Len(chapter_combo.items)}
                   = {c.k : c \in ItemsOf(Get(bible_data, CurrentText(book_combo)))}
        /\ text_display.kind = "chapter" =>
               /\ Ascending(RenderedVerseNums(text_display))
               /\ {RenderedVerseNums(text_display)[i] :
                       i \in 1..Len(text_display.args[3])}
                      = {v.k : v \in ItemsOf(Get(Get(bible_data, text_display.args[1]),
                                                 text_display.args[2]))}

\* C16 witness: with chapters stored "2", "10", "1" and the verses of chapter
\* 10 stored "2", "1", the box lists 1, 2, 10 and the page of chapter 10
\* shows verse 1 and then verse 2.
C16_Witness ==
    /\ bible_data = CorpusShuffled
    /\ Keys(Get(bible_data, <<"Genesis">>)) = <<<<"2">>, <<"1", "0">>, <<"1">>>>
    /\ chapter_combo.items = <<<<"1">>, <<"2">>, <<"1", "0">>>>
    /\ text_display.kind = "chapter"
    /\ text_display.args[2] = <<"1", "0">>
    /\ RenderedVerseNums(text_display) = <<<<"1">>, <<"2">>>>

\* ------------------------------------------------------- highlighting runs
\* The window after a one-verse corpus was loaded from the file and searched,
\* with any short verse text and any short lowercase term in the search box;
\* the two renderers that highlight are then applied.

SeqsUpTo(S, n) == UNION {[1..k -> S] : k \in 0..n}

HighlightTexts == SeqsUpTo({"a", "A", "b", " "}, MaxTextLen)

HighlightTerms == SeqsUpTo({"a", "b"}, MaxTermLen) \ {<<>>}

OneVerseCorpus(text) ==
    JDict(<<KV(<<"Genesis">>, JDict(<<KV(<<"1">>, Verses1(text))>>))>>)

\* A search lists the verse if some term matches it: if it is not blank.
OneVerseResults(text) ==
    IF Len(Strip(text)) = 0 THEN <<>>
    ELSE <<SearchEntry(<<"Genesis">>, <<"1">>, <<"1">>, text)>>

InitHighlight ==
    \E text \in HighlightTexts, term \in HighlightTerms :
        /\ bible_data = OneVerseCorpus(text)
        /\ book_names = <<<<"Genesis">>>>
        /\ search_results = OneVerseResults(text)
        /\ current_result_index = 0
        /\ search_input = term
        /\ book_combo = Combo(<<<<"Genesis">>>>, 0)
        /\ chapter_combo = Combo(<<<<"1">>>>, 0)
        /\ book_blocked = FALSE
        /\ chapter_blocked = FALSE
        /\ content_title = D("Welcome to KJV Bible Reader", <<>>)
        /\ text_display = D("welcome", <<>>)
        /\ status_bar = D("Search cleared", <<>>)
        /\ search_nav_visible = FALSE
        /\ result_label = <<"0", "/", "0">>
        /\ prev_result_enabled = TRUE
        /\ next_result_enabled = TRUE
        /\ raised = "none"
        /\ dialog = "none"
        /\ hung = FALSE
        /\ pending = <<>>
        /\ file = File("json", OneVerseCorpus(text))
        /\ file0 = file
        /\ emitted = <<StatusMsg("Bible data loaded successfully"),
                       DataMsg(OneVerseCorpus(text))>>
        /\ loader_pc = "done"
        /\ loader_data = OneVerseCorpus(text)
        /\ queue = <<>>
        /\ requests = 0
        /\ writes = 0

\* display_search_results renders the result list.
HighlightResults ==
    /\ Becomes(SlotReturn(display_search_results(App)))
    /\ UNCHANGED <<pending, loadervars, queue>>

\* jump_to_current_result renders the chapter of the current result.
HighlightChapter ==
    /\ Becomes(SlotReturn(jump_to_current_result(App)))
    /\ UNCHANGED <<pending, loadervars, queue>>

NextHighlight == HighlightResults \/ HighlightChapter

SpecHighlight == InitHighlight /\ [][NextHighlight]_vars

\* The spans of the segments, concatenated in order.
RECURSIVE Concat(_)
Concat(segs) == IF Len(segs) = 0 THEN <<>> ELSE Head(segs).span \o Concat(Tail(segs))

\* Gap, match, gap, ..., trailing remainder: the even segments are the
\* matches, each of them the term in some casing.
GapsAndMatches(segs, term) ==
    /\ Len(segs) % 2 = 1
    /\ \A i \in 1..Len(segs) :
           /\ segs[i].isMatch = (i % 2 = 0)
           /\ segs[i].isMatch => Lower(segs[i].span) = term

\* C17: for every verse text and every non-empty lowercase term, the spans of
\* the segments the highlighting loop produces (gap, match, gap, ..., trailing
\* remainder), concatenated in order, are the original verse text, in its
\* original casing, on the result list and on the chapter page.
C17_HighlightRoundTrip ==
    /\ text_display.kind = "results" =>
           \A i \in 1..Len(text_display.args[3]) :
               /\ Concat(text_display.args[3][i].body) = search_results[i].text
               /\ GapsAndMatches(text_display.args[3][i].body, search_input)
    /\ text_display.kind = "chapter" =>
           \A i \in 1..Len(text_display.args[3]) :
               Concat(text_display.args[3][i].body)
                   = Get(Get(Get(bible_data, text_display.args[1]),
                             text_display.args[2]),
                         text_display.args[3][i].num).s

\* C17 witness: the text "AbA" was highlighted for the term "a": a match at
\* each end, both kept in upper case, and the gap between them.
C17_Witness ==
    /\ text_display.kind = "results"
    /\ search_input = <<"a">>
    /\ text_display.args[3][1].body
           = <<Seg(<<>>, FALSE), Seg(<<"A">>, TRUE), Seg(<<"b">>, FALSE),
               Seg(<<"A">>, TRUE), Seg(<<>>, FALSE)>>

\* The remote path has written the snapshot and reported success.
Persisted ==
    /\ requests = 1
    /\ writes = 1
    /\ file.state = "json"
    /\ LastStatus(emitted) = StatusMsg("Bible data loaded successfully")

Absent(data, book, chapter) ==
    \/ ~HasKey(data, book)
    \/ IsDict(Get(data, book)) /\ ~HasKey(Get(data, book), chapter)

\* The handler that ended in state r showed the not-found message for
\* book/chapter, let no exception escape and left the corpus, the result list
\* and the cursor as they are now.
RecoveredNotFound(r, book, chapter) ==
    /\ r.content_title = D("Error", <<>>)
    /\ r.text_display = D("Chapter {book} {chapter} not found.", <<book, chapter>>)
    /\ r.raised = "none" /\ r.exc = "none" /\ ~r.hung
    /\ r.bible_data = bible_data
    /\ r.book_names = book_names
    /\ r.search_results = search_results
    /\ r.current_result_index = current_result_index

\* Books and chapters a display may be asked for, present or not.
RequestBooks == {<<"Genesis">>, <<"Exodus">>, <<"Tobit">>, <<"Jude">>}

RequestChapters == {<<"1">>, <<"0", "1">>, <<"2">>, <<"9">>}

\* C19: in every state with a corpus, read_chapter asked (through the two
\* boxes) for a book/chapter combination that the corpus does not have, and
\* display_chapter_with_highlight asked for one by jump_to_current_result,
\* show the not-found message, raise nothing and leave bible_data,
\* search_results and current_result_index unchanged.
C19_NotFoundIsRecovered ==
    (Truthy(bible_data) /\ ~hung) =>
        /\ (/\ Len(CurrentText(book_combo)) > 0
            /\ Len(CurrentText(chapter_combo)) > 0
            /\ Absent(bible_data, CurrentText(book_combo), CurrentText(chapter_combo)))
           => RecoveredNotFound(SlotReturn(read_chapter(App)),
                                CurrentText(book_combo), CurrentText(chapter_combo))
        /\ \A book \in RequestBooks, chapter \in RequestChapters :
               Absent(bible_data, book, chapter) =>
                   RecoveredNotFound(
                       SlotReturn(display_chapter_with_highlight(App, book, chapter, <<"1">>)),
                       book, chapter)

\* C19 witness: Exodus, stored with the chapter key "01" only, was selected;
\* the box offers chapter "1", which the corpus does not have, and
\* read_chapter has shown the not-found message.
C19_Witness ==
    /\ bible_data = CorpusPaddedBook
    /\ CurrentText(book_combo) = <<"Exodus">>
    /\ CurrentText(chapter_combo) = <<"1">>
    /\ Absent(bible_data, <<"Exodus">>, <<"1">>)
    /\ text_display = D("Chapter {book} {chapter} not found.", <<<<"Exodus">>, <<"1">>>>)
    /\ status_bar = D("Chapter not available", <<>>)
    /\ raised = "none"

\* C20: when the snapshot file holds {"Genesis": {}}, validation answers
\* False and the loader goes on to the remote acquisition: the thread does not
\* die, and once it has something to emit it has made its one request.
C20_EmptyBookFallsThrough ==
    file0 = File("json", SnapshotBookEmpty) =>
        /\ validate_data(file0.val) = "False"
        /\ load_data(file0).pc = "download"
        /\ loader_pc # "died"
        /\ loader_pc \in {"emit", "done"} => requests = 1

\* The mapping keyed "1".."n" that a list of n chapters stands for: list
\* position k gives chapter k+1 (positions counted from 0).
NumberedChapters(chapters) ==
    JDict([k \in 1..Len(chapters.items) |-> KV(StrOf(k), chapters.items[k].v)])

\* The corpus of three levels that a fetched list of {book, chapters}
\* records stands for.
ThreeLevel(raw_data) ==
    JDict([i \in 1..Len(raw_data.items) |->
              KV(Get(raw_data.items[i].v, <<"book">>).s,
                 NumberedChapters(Get(raw_data.items[i].v, <<"chapters">>)))])

\* C21: the corpus returned by a successful remote acquisition maps every
\* fetched book to a mapping keyed by the chapter numbers "1".."n" in list
\* order, each chapter a mapping from verse number to text.
C21_RemoteCorpusIsThreeLevel ==
    (Persisted /\ loader_pc \in {"emit", "done"}) =>
        /\ \E raw_data \in Payloads :
               /\ Convert(raw_data).exc = "none"
               /\ loader_data = ThreeLevel(raw_data)
        /\ \A i \in 1..Len(loader_data.items) :
               /\ IsDict(loader_data.items[i].v)
               /\ Keys(loader_data.items[i].v)
                      = [k \in 1..Len(loader_data.items[i].v.items) |-> StrOf(k)]

\* The loader has emitted this status.
HasEmitted(kind) == \E i \in 1..Len(emitted) : emitted[i] = StatusMsg(kind)

\* The causes of a failed fetch or a failed transform.
FetchOrTransformFailures == RequestFailures \cup {"KeyError", "TypeError"}

\* C22: the snapshot file differs from the one found at startup only after a
\* remote acquisition whose fetch and transform succeeded (the loader reached
\* "Saving data locally..."); a run that loads a valid snapshot, a run that
\* finds a corrupted snapshot and a run whose fetch or transform failed leave
\* the file as it was and never open it for writing.
C22_SnapshotWrittenOnlyAfterTransform ==
    /\ (file # file0 \/ writes > 0) =>
           /\ requests = 1
           /\ writes = 1
           /\ HasEmitted("Converting data format...")
           /\ HasEmitted("Saving data locally...")
    /\ (file0.state = "json" /\ validate_data(file0.val) = "True") =>
           (file = file0 /\ writes = 0 /\ requests = 0)
    /\ file0.state = "corrupt" => (file = file0 /\ writes = 0 /\ requests = 0)
    /\ (\E cause \in FetchOrTransformFailures : LastStatus(emitted) = FailedMsg(cause)) =>
           (file = file0 /\ writes = 0)

\* C22 witness: a snapshot that validation rejects was found, the payload
\* could not be transformed, and the run has ended with the file as it was.
C22_Witness ==
    /\ file0 = File("json", SnapshotChapterNotMapping)
    /\ LastStatus(emitted) = FailedMsg("KeyError")
    /\ loader_pc = "done"
    /\ requests = 1
    /\ file = file0
    /\ writes = 0

\* The numbers of the verses flagged for emphasis on a rendered chapter page.
Emphasized(page) ==
    {page.args[3][i].num : i \in {j \in 1..Len(page.args[3]) : page.args[3][j].emph}}

\* The window shows this result's chapter, selected in both boxes and rendered
\* by display_chapter_with_highlight with the result's verse, and no other,
\* flagged; no selection-change handler has run (read_chapter would have
\* hidden the result navigation and left the boxes' signals as they were).
JumpedTo(result) ==
    /\ raised' = "none"
    /\ CurrentText(book_combo') = result.book
    /\ CurrentText(chapter_combo') = result.chapter
    /\ ~book_blocked' /\ ~chapter_blocked'
    /\ search_nav_visible' = search_nav_visible
    /\ text_display'.kind = "chapter"
    /\ text_display'.args[1] = result.book
    /\ text_display'.args[2] = result.chapter
    /\ Emphasized(text_display') = {result.verse}
    /\ content_title' = D("{book} - Chapter {chapter}", <<result.book, result.chapter>>)
    /\ status_bar' = D("Result {i}/{n}: {book} {chapter}:{verse}",
                       <<current_result_index' + 1, Len(search_results),
                         result.book, result.chapter, result.verse>>)

\* C23: every next_result or previous_result that changes the index leaves
\* the index on a result, selects that result's book and chapter without a
\* selection-change handler running, and leaves the window on that chapter as
\* rendered by display_chapter_with_highlight with exactly the result's verse
\* flagged for emphasis.
C23_ResultJumpSelectsSilently ==
    [][((NextResult \/ PreviousResult)
            /\ current_result_index' # current_result_index) =>
           /\ search_results' = search_results
           /\ current_result_index' \in 0..(Len(search_results) - 1)
           /\ JumpedTo(search_results[current_result_index' + 1])]_vars

\* C23, restricted: the same while the loaded corpus is well formed.
C23_JumpOnWellFormed ==
    [][((NextResult \/ PreviousResult) /\ WellFormed(bible_data)
            /\ current_result_index' # current_result_index) =>
           /\ search_results' = search_results
           /\ current_result_index' \in 0..(Len(search_results) - 1)
           /\ JumpedTo(search_results[current_result_index' + 1])]_vars

\* The terminal data_loaded event has been handled by on_data_loaded.
DataDelivered ==
    /\ \E i \in 1..Len(emitted) : emitted[i].type = "data"
    /\ \A i \in 1..Len(queue) : queue[i].type # "data"

\* The operations of the window that read the corpus.
CorpusReaders ==
    \/ SearchBible /\ Len(Strip(search_input)) > 0
    \/ SearchBibleResume
    \/ ReadChapter
    \/ PreviousChapter
    \/ NextChapter
    \/ NextResult
    \/ PreviousResult

\* C24: until on_data_loaded has handled the terminal event the corpus is
\* empty, no search is suspended and nothing is listed; an operation that
\* reads the corpus, handled before it, changes nothing that the window
\* shows, produces no results, raises nothing and opens no dialog.
C24_NoCorpusUseBeforeDelivery ==
    [][~DataDelivered =>
           /\ bible_data = EmptyDict /\ book_names = <<>>
           /\ search_results = <<>> /\ pending = <<>>
           /\ CorpusReaders =>
                  /\ search_results' = <<>>
                  /\ current_result_index' = 0
                  /\ pending' = <<>>
                  /\ raised' = "none" /\ dialog' = "none" /\ ~hung'
                  /\ shown' = shown]_vars

\* C24 witness: the loader has finished and a corpus waits in the queue, the
\* user has typed a term, and a search handled now returns at once.
C24_Witness ==
    /\ ~DataDelivered
    /\ loader_pc = "done"
    /\ \E i \in 1..Len(queue) : queue[i] = DataMsg(CorpusShuffled)
    /\ search_input = <<"b">>
    /\ bible_data = EmptyDict
    /\ ~SearchYields(App)
    /\ search_bible_call(App) = App
    /\ read_chapter(App) = App
    /\ next_chapter(App) = App

\* The chapters of a book in numeric order, as the box lists them.
ChaptersOf(data, book) ==
    IF IsDict(Get(data, book)) /\ KeysIntOk(Get(data, book))
    THEN ChapterStrs(Get(data, book)) ELSE <<>>

\* Every (book, chapter) of the books names[i..], in the order of names and
\* then in numeric chapter order.
RECURSIVE PlacesFrom(_, _, _)
PlacesFrom(data, names, i) ==
    IF i > Len(names) THEN <<>>
    ELSE LET chapters == ChaptersOf(data, names[i])
         IN  [k \in 1..Len(chapters) |-> <<names[i], chapters[k]>>]
             \o PlacesFrom(data, names, i + 1)

Places == PlacesFrom(bible_data, book_names, 1)

\* The (book, chapter) selected in the two boxes.
Selection == <<CurrentText(book_combo), CurrentText(chapter_combo)>>

\* The selection is the p-th place.
SelectionAt(p) == p \in 1..Len(Places) /\ Places[p] = Selection

\* The handler that ended in state r selected this place and raised nothing.
Selects(r, place) ==
    /\ CurrentText(r.book_combo) = place[1]
    /\ CurrentText(r.chapter_combo) = place[2]
    /\ r.raised = "none" /\ r.exc = "none"

\* The selection is the p-th place and no other.
SelectionOnlyAt(places, p) ==
    /\ places[p] = Selection
    /\ \A q \in 1..Len(places) : places[q] = Selection => q = p

\* C25: in every state where the selection is the p-th of the n places
\* (book, chapter) of the corpus, ordered by the working book list and then by
\* chapter number, next_chapter selects place min(p+1, n) and
\* previous_chapter place max(p-1, 1), and neither raises; so next_chapter
\* crosses from the last chapter of a book to the first chapter of the next
\* book of the working list, previous_chapter crosses back to the last chapter
\* of the previous book, both stay at the ends, and repeated next_chapter from
\* place 1 visits the places one by one in this order.
C25_ChapterNavigationFollowsWorkingList ==
    ~hung =>
        LET places == Places
        IN  \A p \in 1..Len(places) :
                SelectionOnlyAt(places, p) =>
                    /\ Selects(next_chapter(App), places[Min(p + 1, Len(places))])
                    /\ Selects(previous_chapter(App), places[Max(p - 1, 1)])

\* C25 witness: next_chapter has crossed from the last chapter of Genesis
\* (chapter 10, stored between "2" and "1") to Exodus, which the corpus stores
\* before Genesis, and shows Exodus 1.
C25_Witness ==
    /\ bible_data = CorpusShuffled
    /\ book_names = <<<<"Genesis">>, <<"Exodus">>>>
    /\ Places = <<<<<<"Genesis">>, <<"1">>>>, <<<<"Genesis">>, <<"2">>>>,
                  <<<<"Genesis">>, <<"1", "0">>>>, <<<<"Exodus">>, <<"1">>>>>>
    /\ SelectionAt(4)
    /\ content_title = D("{book} - Chapter {chapter}", <<<<"Exodus">>, <<"1">>>>)
    /\ status_bar = D("{book} {chapter} (KJV) - {n} verses", <<<<"Exodus">>, <<"1">>, 1>>)

\* C26: the highlighting loop of display_search_results always ends: no
\* reachable state has the interactive thread inside it for ever, whatever
\* was handled at the yield point of search_bible.
C26_HighlightLoopTerminates == ~hung

\* C26, restricted: a search during whose yield nothing changed the text of
\* the search box displays its results and returns.
C26_TerminatesWithoutEdits ==
    [][(SearchBibleResume /\ Strip(search_input) = Head(pending)) => ~hung']_vars

\* This rendered text has at least one highlighted match.
HasMatch(body) == \E k \in 1..Len(body) : body[k].isMatch

\* C27: a page rendered for a result list highlights the term that produced
\* the list: every entry of a displayed result list, and the emphasized verse
\* of a chapter rendered by a result jump, has at least one highlighted match.
C27_HighlightedTermIsSearchedTerm ==
    /\ text_display.kind = "results" =>
           \A i \in 1..Len(text_display.args[3]) : HasMatch(text_display.args[3][i].body)
    /\ text_display.kind = "chapter" =>
           \A i \in 1..Len(text_display.args[3]) :
               text_display.args[3][i].emph => HasMatch(text_display.args[3][i].body)

SuccessStatus == StatusMsg("Bible data loaded successfully")

\* C28: the loader has emitted the success status only if the corpus it is
\* about to deliver, or has delivered, is non-empty and passes validate_data.
C28_SuccessOnlyForValidatedCorpus ==
    (\E i \in 1..Len(emitted) : emitted[i] = SuccessStatus) =>
        /\ loader_pc \in {"emit", "done"}
        /\ Truthy(loader_data)
        /\ validate_data(loader_data) = "True"

\* C28, restricted: the same for the runs that found an acceptable snapshot
\* and made no request.
C28_SuccessOnLocalPath ==
    ((\E i \in 1..Len(emitted) : emitted[i] = SuccessStatus) /\ requests = 0) =>
        /\ loader_pc \in {"emit", "done"}
        /\ loader_data = file0.val
        /\ Truthy(loader_data)
        /\ validate_data(loader_data) = "True"

\* C29: once a corpus that validate_data accepts has been delivered, no
\* handler of the window (search, chapter listing, chapter rendering, result
\* jump) ends by raising.
C29_AcceptedCorpusNeverRaises ==
    (Truthy(bible_data) /\ bible_data = file0.val
        /\ validate_data(bible_data) = "True") => raised = "none"

\* C29, restricted: no handler raises on a well-formed corpus.
C29_NoRaiseOnWellFormed ==
    (Truthy(bible_data) /\ WellFormed(bible_data)) => raised = "none"

=============================================================================
